---- MODULE Spec2Model ----
(***************************************************************************)
(* A model of package fcompare (src/fcompare/fcompare.go): the capability  *)
(* probe TestKeepAtime, the fingerprint functions GetChecksum and          *)
(* GetPartialChecksum, the per-file operation processFile and the grouping *)
(* operation CompareFiles, run against a small file system.                *)
(*                                                                         *)
(* The program is sequential.  Each function is a frame (cf, pf, ck, tk)   *)
(* with its own position; one action is one statement or system call of    *)
(* the source.  A file's content is a size and the set of offsets that     *)
(* hold a non-zero byte (every other byte is zero), so that files of       *)
(* 16 MiB and more are represented with the real byte arithmetic.          *)
(* SHA-256 and the hex encoding are modelled as collision-free             *)
(* constructors over the byte stream that was written to the hash.         *)
(***************************************************************************)
EXTENDS Integers, Sequences, FiniteSets, TLC

\* ---------------------------------------------------------------- bounds
\* Longest path list handed to CompareFiles.
MaxList == 3
\* File sizes of the checksum specification reach 16 MiB + MaxExtraMiB MiB + 1.
MaxExtraMiB == 2

\* ------------------------------------------------------ program constants
MiB == 1024 * 1024
minPartialChecksumSize == 16 * 1024 * 1024

CmpSize == 0
CmpPartial == 1
CmpFull == 2
\* CompareMethod is an int: any other value is an unknown method.
Methods == {CmpSize, CmpPartial, CmpFull, CmpFull + 1}

\* time.Date(2000, 1, 1, 0, 0, 0, 0, time.UTC) as Unix seconds.
SentinelSec == 946684800
SentinelTime == [sec |-> SentinelSec, nsec |-> 0]

\* time.Time.Unix(): whole seconds, the nanoseconds dropped.
Unix(t) == t.sec

\* ------------------------------------------------------------ file system
Paths == {"a", "b"}

\* The instant at which the program runs; a read stamps it on the file.
Now == [sec |-> SentinelSec + 700000000, nsec |-> 250]
\* The times the files carry before the program runs.
InitATime(p) == [sec |-> SentinelSec + (IF p = "a" THEN 500000000 ELSE 600000000), nsec |-> 7]
InitMTime(p) == [sec |-> SentinelSec + (IF p = "a" THEN 400000000 ELSE 450000000), nsec |-> 3]

NoErr == "nil"

\* Offsets at which the files of the model may hold their one non-zero byte:
\* early in the file, in the third MiB, the byte in the middle, near the end.
ProbeOffsets(size) == {o \in {5, 2 * MiB + 5, size \div 2, size - 6} : 0 <= o /\ o < size}

\* A file content: all zero, or one non-zero byte at one of the offsets.
Contents(offsets) == {{}} \cup {{o} : o \in offsets}

\* os.Stat / atime.Stat: fails on a missing file, may fail with an I/O error.
StatErrs(f) == IF f.state = "missing" THEN {"ENOENT"} ELSE {NoErr, "EIO"}
\* os.Open: fails on a missing or unreadable file, may fail otherwise too.
OpenErrs(f) == IF f.state = "missing" THEN {"ENOENT"}
               ELSE IF f.state = "noperm" THEN {"EACCES"} ELSE {NoErr, "EIO"}
\* read and seek on an open file.
IOErrs == {NoErr, "EIO"}

\* ------------------------------------------------------------------ hash
\* sha256.New(): nothing written yet.
NewHash == [len |-> 0, ones |-> {}]

\* The bytes [from, from + n) of file f written to the running hash h.
HashWrite(h, f, from, n) ==
    [len |-> h.len + n,
     ones |-> h.ones \cup {h.len + (o - from) : o \in {x \in f.ones : from <= x /\ x < from + n}}]

\* strconv.FormatInt(n, 10) for n >= 0, as the sequence of decimal digits.
RECURSIVE FormatInt(_)
FormatInt(n) == IF n < 10 THEN <<n>> ELSE Append(FormatInt(n \div 10), n % 10)

\* The fingerprint strings: "" , a decimal number, a hex digest.
EmptyString == [kind |-> "empty", digits |-> <<>>, len |-> 0, ones |-> {}]
DecString(n) == [kind |-> "dec", digits |-> FormatInt(n), len |-> 0, ones |-> {}]
\* hex.EncodeToString(h.Sum(nil)): determined by, and determining, the stream.
HexDigest(h) == [kind |-> "hex", digits |-> <<>>, len |-> h.len, ones |-> h.ones]

\* Variant: the middle of the file, not rounded.
FileMid_unrounded(filesize) == filesize \div 2

\* The middle of the file, rounded down to the nearest 1M.
FileMid(filesize) == (filesize \div 2) - ((filesize \div 2) % MiB)

VARIABLES
    files,    \* path -> [state, size, ones, atime, mtime]
    fsMode,   \* what os.Chtimes does on this mount: "honour", "ignore", "error"
    tmp,      \* the probe's temporary file: [exists, atime]
    touched,  \* the targets of the system calls made so far (paths, "tmp")
    last,     \* the last system call made, <<call, target>>
    call,     \* the top-level call: [op, fns, method, keepATime, checkKeepAtime]
    status,   \* "idle", "running", "returned", "exited" (log.Fatal)
    ret,      \* what the top-level call returned
    results,  \* <<op, path>> -> the fingerprint results returned so far
    cf,       \* frame of CompareFiles
    pf,       \* frame of processFile
    ck,       \* frame of GetChecksum / GetPartialChecksum
    tk        \* frame of TestKeepAtime

vars == <<files, fsMode, tmp, touched, last, call, status, ret, results, cf, pf, ck, tk>>


\* ----------------------------------------------------------------- frames
EmptyMap == [k \in {} |-> <<>>]

NoRet == [fp |-> EmptyString, isFull |-> FALSE, canKeep |-> FALSE, groups |-> <<>>, err |-> NoErr]
NoCall == [op |-> "none", fns |-> <<>>, method |-> CmpSize, keepATime |-> FALSE, checkKeepAtime |-> FALSE]

\* fps is the history of cf.fi: what processFile returned for each index so far.
cfIdle == [pc |-> "inactive", i |-> 0, fis |-> EmptyMap, left |-> {}, equalFiles |-> <<>>,
           canKeep |-> FALSE, fi |-> EmptyString, err |-> NoErr, fps |-> <<>>]
pfIdle == [pc |-> "inactive", filename |-> "a", method |-> CmpSize, keepATime |-> FALSE,
           atime |-> SentinelTime, mtime |-> SentinelTime, size |-> 0, deferChtimes |-> FALSE,
           fileinfo |-> EmptyString, err |-> NoErr]
ckIdle == [pc |-> "inactive", fn |-> "none", filename |-> "a", filesize |-> 0, h |-> NewHash,
           isFull |-> FALSE, pos |-> 0, open |-> FALSE, windows |-> <<>>,
           sum |-> EmptyString, err |-> NoErr]
tkIdle == [pc |-> "inactive", deferRemove |-> FALSE, result |-> FALSE, err |-> NoErr]

\* ------------------------------------------------------------------- Init
FileOk(p, size, ones) ==
    [state |-> "ok", size |-> size, ones |-> ones, atime |-> InitATime(p), mtime |-> InitMTime(p)]
FileMissing(p) ==
    [state |-> "missing", size |-> 0, ones |-> {}, atime |-> InitATime(p), mtime |-> InitMTime(p)]
FileNoPerm(p) ==
    [state |-> "noperm", size |-> minPartialChecksumSize, ones |-> {},
     atime |-> InitATime(p), mtime |-> InitMTime(p)]

\* The files of the main specification.  "a" is unreadable, or 17 MiB of zero
\* bytes; "b" is missing, or 16 MiB with a non-zero byte, or 17 MiB, all zero or
\* with one non-zero byte in its third MiB or in the middle.
FileKinds(p) ==
    IF p = "a"
    THEN {FileNoPerm(p), FileOk(p, minPartialChecksumSize + MiB, {})}
    ELSE {FileMissing(p), FileOk(p, minPartialChecksumSize, {2 * MiB + 5})}
         \cup {FileOk(p, minPartialChecksumSize + MiB, c) :
                 c \in Contents({2 * MiB + 5, (minPartialChecksumSize + MiB) \div 2})}

\* The files of the checksum specification: readable, sizes around the threshold
\* and around every MiB boundary above it.
SumSizes ==
    {0, 1, MiB, minPartialChecksumSize - 1}
    \cup {minPartialChecksumSize + k * MiB + d : k \in 0..MaxExtraMiB, d \in {-1, 0, 1}}
SumKinds(p) == UNION {{FileOk(p, s, c) : c \in Contents(ProbeOffsets(s))} : s \in SumSizes}

InitRest ==
    /\ tmp = [exists |-> FALSE, atime |-> SentinelTime]
    /\ touched = {}
    /\ last = <<"none", "none">>
    /\ call = NoCall
    /\ status = "idle"
    /\ ret = NoRet
    /\ results = EmptyMap
    /\ cf = cfIdle
    /\ pf = pfIdle
    /\ ck = ckIdle
    /\ tk = tkIdle

Init ==
    /\ files \in {f \in [Paths -> UNION {FileKinds(p) : p \in Paths}] :
                    \A p \in Paths : f[p] \in FileKinds(p)}
    /\ fsMode \in {"honour", "ignore", "error"}
    /\ InitRest

InitSum ==
    /\ \E k \in SumKinds("a") :
         files \in {f \in [Paths -> SumKinds("a") \cup SumKinds("b")] :
                      /\ f["a"] = k
                      /\ f["b"] \in SumKinds("b")
                      /\ f["b"].size = k.size}
    /\ fsMode = "honour"
    /\ InitRest

\* A system call op on target is made.
Sys(op, target) ==
    /\ touched' = touched \cup {target}
    /\ last' = <<op, target>>

\* ------------------------------------------------------ returns and exits
\* The top-level call returns r to the caller of the package.
TopReturn(r) ==
    /\ status' = "returned"
    /\ ret' = r
    /\ results' =
         IF call.op \in {"GetChecksum", "GetPartialChecksum"} /\ r.err = NoErr
         THEN [k \in DOMAIN results \cup {<<call.op, call.fns[1]>>} |->
                 IF k = <<call.op, call.fns[1]>> THEN r ELSE results[k]]
         ELSE results

\* log.Fatal: the message is printed and os.Exit(1) ends the process at once;
\* no deferred call of any frame runs.
Fatal ==
    /\ status' = "exited"
    /\ UNCHANGED <<ret, results>>

Running == status = "running"


\* os.Chtimes(name, at, mt) on a file of this mount: the file afterwards.
Chtimes(mode, f, at, mt) ==
    IF mode = "honour" /\ f.state # "missing" THEN [f EXCEPT !.atime = at, !.mtime = mt] ELSE f
\* ... and the error it returns.
ChtimesErr(mode, f) ==
    IF f.state = "missing" THEN "ENOENT" ELSE IF mode = "error" THEN "EPERM" ELSE NoErr

\* A read of an open file stamps the access time.
Touch(f) == [f EXCEPT !.atime = Now]

\* ---------------------------------------------------------- TestKeepAtime
\* The top-level call TestKeepAtime(fn).
CallTestKeepAtime(fn) ==
    /\ status = "idle"
    /\ status' = "running"
    /\ call' = [NoCall EXCEPT !.op = "TestKeepAtime", !.fns = <<fn>>]
    /\ tk' = [tkIdle EXCEPT !.pc = "create"]
    /\ UNCHANGED <<files, fsMode, tmp, touched, last, ret, results, cf, pf, ck>>

\* f, err := os.CreateTemp(dir, "fcompare"); f.Close(); defer os.Remove(tfn)
TK_CreateTemp ==
    /\ Running /\ tk.pc = "create"
    /\ Sys("CreateTemp", "tmp")
    /\ \E e \in {NoErr, "EACCES"} :
         IF e # NoErr
         THEN /\ tk' = [tk EXCEPT !.pc = "return", !.result = FALSE, !.err = e]
              /\ tmp' = tmp
         ELSE /\ tk' = [tk EXCEPT !.pc = "chtimes", !.deferRemove = TRUE]
              /\ tmp' = [exists |-> TRUE, atime |-> Now]
    /\ UNCHANGED <<files, fsMode, call, status, ret, results, cf, pf, ck>>

\* if err := os.Chtimes(tfn, aTime, aTime); err != nil { return false, err }
TK_Chtimes ==
    /\ Running /\ tk.pc = "chtimes"
    /\ Sys("Chtimes", "tmp")
    /\ tmp' = IF fsMode = "honour" THEN [tmp EXCEPT !.atime = SentinelTime] ELSE tmp
    /\ tk' = IF fsMode = "error"
             THEN [tk EXCEPT !.pc = "return", !.result = FALSE, !.err = "EPERM"]
             ELSE [tk EXCEPT !.pc = "stat"]
    /\ UNCHANGED <<files, fsMode, call, status, ret, results, cf, pf, ck>>

\* aTimeChk, err := atime.Stat(tfn); the comparison at one-second resolution.
TK_Stat ==
    /\ Running /\ tk.pc = "stat"
    /\ Sys("atime.Stat", "tmp")
    /\ \E e \in IOErrs :
         tk' = IF e # NoErr
               THEN [tk EXCEPT !.pc = "return", !.result = FALSE, !.err = e]
               ELSE [tk EXCEPT !.pc = "return", !.err = NoErr,
                                !.result = (Unix(SentinelTime) = Unix(tmp.atime))]
    /\ UNCHANGED <<files, fsMode, tmp, call, status, ret, results, cf, pf, ck>>

\* Variant: os.Remove(tfn) as the last statement instead of deferred, so that
\* the error returns skip it.
DeferredRemove_onSuccess(frame, t) ==
    IF frame.deferRemove /\ frame.err = NoErr THEN [t EXCEPT !.exists = FALSE] ELSE t

\* The deferred os.Remove(tfn), run when TestKeepAtime returns: the temporary
\* file afterwards.
DeferredRemove(frame, t) == IF frame.deferRemove THEN [t EXCEPT !.exists = FALSE] ELSE t

\* TestKeepAtime returns: its deferred call runs, the caller gets the result.
TK_Return ==
    /\ Running /\ tk.pc = "return"
    /\ tmp' = DeferredRemove(tk, tmp)
    /\ IF tk.deferRemove THEN Sys("Remove", "tmp") ELSE UNCHANGED <<touched, last>>
    /\ tk' = tkIdle
    /\ IF call.op = "CompareFiles"
       THEN /\ cf' = [cf EXCEPT !.pc = "afterProbe", !.canKeep = tk.result, !.err = tk.err]
            /\ UNCHANGED <<status, ret, results>>
       ELSE /\ TopReturn([NoRet EXCEPT !.canKeep = tk.result, !.err = tk.err])
            /\ cf' = cf
    /\ UNCHANGED <<files, fsMode, call, pf, ck>>

\* ----------------------------------------------------------- CompareFiles
FnsLists == UNION {[1..n -> Paths] : n \in 1..MaxList}

\* The top-level call CompareFiles(fns, method, keepATime, checkKeepAtime).
CallCompareFiles(fns, method, keepATime, checkKeepAtime) ==
    /\ status = "idle"
    /\ status' = "running"
    /\ call' = [op |-> "CompareFiles", fns |-> fns, method |-> method,
                keepATime |-> keepATime, checkKeepAtime |-> checkKeepAtime]
    /\ cf' = [cfIdle EXCEPT !.pc = "check"]
    /\ UNCHANGED <<files, fsMode, tmp, touched, last, ret, results, pf, ck, tk>>

\* if checkKeepAtime { canKeep, err := TestKeepAtime(fns[0]) ...
CF_Check ==
    /\ Running /\ cf.pc = "check"
    /\ IF call.checkKeepAtime
       THEN /\ tk' = [tkIdle EXCEPT !.pc = "create"]
            /\ cf' = [cf EXCEPT !.pc = "waitProbe"]
       ELSE /\ tk' = tk
            /\ cf' = [cf EXCEPT !.pc = "loop"]
    /\ UNCHANGED <<files, fsMode, tmp, touched, last, call, status, ret, results, pf, ck>>

\* Variant: "not capable" is not treated as an error.
ProbeVerdict_warnOnly(canKeep, err) == err

\* The error with which CompareFiles gives up after the probe, or NoErr.
ProbeVerdict(canKeep, err) ==
    IF err # NoErr THEN err ELSE IF ~canKeep THEN "can't keep atime" ELSE NoErr

\* ... if err != nil { return nil, err }; if !canKeep { return nil, errors.New(...) } }
CF_AfterProbe ==
    /\ Running /\ cf.pc = "afterProbe"
    /\ IF ProbeVerdict(cf.canKeep, cf.err) # NoErr
       THEN /\ TopReturn([NoRet EXCEPT !.err = ProbeVerdict(cf.canKeep, cf.err)])
            /\ cf' = [cf EXCEPT !.pc = "done"]
       ELSE /\ cf' = [cf EXCEPT !.pc = "loop"]
            /\ UNCHANGED <<status, ret, results>>
    /\ UNCHANGED <<files, fsMode, tmp, touched, last, call, pf, ck, tk>>

\* for i, fn := range fns { fi, err := processFile(fn, method, keepATime)
CF_Loop ==
    /\ Running /\ cf.pc = "loop"
    /\ IF cf.i < Len(call.fns)
       THEN /\ pf' = [pfIdle EXCEPT !.pc = "atimeStat", !.filename = call.fns[cf.i + 1],
                                     !.method = call.method, !.keepATime = call.keepATime]
            /\ cf' = [cf EXCEPT !.pc = "waitProcess"]
       ELSE /\ pf' = pf
            /\ cf' = [cf EXCEPT !.pc = "range", !.left = DOMAIN cf.fis]
    /\ UNCHANGED <<files, fsMode, tmp, touched, last, call, status, ret, results, ck, tk>>

\* Variant: the groups collected so far are returned with the error.
ErrorReturn_partial(frame) ==
    [NoRet EXCEPT !.groups = IF DOMAIN frame.fis = {} THEN <<>>
                             ELSE <<frame.fis[CHOOSE k \in DOMAIN frame.fis : TRUE]>>,
                  !.err = frame.err]

\* return equalFiles, err  (inside the loop; equalFiles has not been filled yet)
ErrorReturn(frame) == [NoRet EXCEPT !.groups = frame.equalFiles, !.err = frame.err]

\* Variant: fis[fi] = []int{i}, the earlier indices of the key dropped.
MapAppend_overwrite(fis, fi, i) ==
    [k \in DOMAIN fis \cup {fi} |-> IF k = fi THEN <<i>> ELSE fis[k]]

\* fis[fi] = append(fis[fi], i)
MapAppend(fis, fi, i) ==
    [k \in DOMAIN fis \cup {fi} |->
       IF k = fi THEN Append(IF fi \in DOMAIN fis THEN fis[fi] ELSE <<>>, i) ELSE fis[k]]

\* if err != nil { return equalFiles, err }; fis[fi] = append(fis[fi], i) }
CF_AfterProcess ==
    /\ Running /\ cf.pc = "afterProcess"
    /\ IF cf.err # NoErr
       THEN /\ TopReturn(ErrorReturn(cf))
            /\ cf' = [cf EXCEPT !.pc = "done"]
       ELSE /\ cf' = [cf EXCEPT !.pc = "loop", !.fis = MapAppend(cf.fis, cf.fi, cf.i),
                                 !.i = cf.i + 1, !.fps = Append(cf.fps, cf.fi)]
            /\ UNCHANGED <<status, ret, results>>
    /\ UNCHANGED <<files, fsMode, tmp, touched, last, call, pf, ck, tk>>

\* for _, v := range fis { equalFiles = append(equalFiles, v) }; return equalFiles, err
\* The map is walked in an order the runtime chooses.
CF_Range ==
    /\ Running /\ cf.pc = "range"
    /\ IF cf.left = {}
       THEN /\ TopReturn([NoRet EXCEPT !.groups = cf.equalFiles])
            /\ cf' = [cf EXCEPT !.pc = "done"]
       ELSE /\ \E k \in cf.left :
                 cf' = [cf EXCEPT !.equalFiles = Append(cf.equalFiles, cf.fis[k]),
                                  !.left = cf.left \ {k}]
            /\ UNCHANGED <<status, ret, results>>
    /\ UNCHANGED <<files, fsMode, tmp, touched, last, call, pf, ck, tk>>


\* ------------------------------------------------------------ processFile
\* The top-level call processFile(filename, method, keepATime).
CallProcessFile(fn, method, keepATime) ==
    /\ status = "idle"
    /\ status' = "running"
    /\ call' = [NoCall EXCEPT !.op = "processFile", !.fns = <<fn>>, !.method = method,
                               !.keepATime = keepATime]
    /\ pf' = [pfIdle EXCEPT !.pc = "atimeStat", !.filename = fn, !.method = method,
                             !.keepATime = keepATime]
    /\ UNCHANGED <<files, fsMode, tmp, touched, last, ret, results, cf, ck, tk>>

\* atime, err := atime.Stat(filename); if err != nil { log.Fatal(err.Error()) }
PF_AtimeStat ==
    /\ Running /\ pf.pc = "atimeStat"
    /\ Sys("atime.Stat", pf.filename)
    /\ \E e \in StatErrs(files[pf.filename]) :
         IF e # NoErr
         THEN /\ pf' = [pf EXCEPT !.pc = "fatal", !.err = e]
              /\ Fatal
         ELSE /\ pf' = [pf EXCEPT !.pc = "stat", !.atime = files[pf.filename].atime]
              /\ UNCHANGED <<status, ret, results>>
    /\ UNCHANGED <<files, fsMode, tmp, call, cf, ck, tk>>

\* fi, err := os.Stat(filename); if err != nil { return fileinfo, err }
\* mtime := fi.ModTime(); if keepATime { defer os.Chtimes(filename, atime, mtime) }
PF_Stat ==
    /\ Running /\ pf.pc = "stat"
    /\ Sys("Stat", pf.filename)
    /\ \E e \in StatErrs(files[pf.filename]) :
         pf' = IF e # NoErr
               THEN [pf EXCEPT !.pc = "return", !.err = e]
               ELSE [pf EXCEPT !.pc = "switch", !.mtime = files[pf.filename].mtime,
                                !.size = files[pf.filename].size,
                                !.deferChtimes = pf.keepATime]
    /\ UNCHANGED <<files, fsMode, tmp, call, status, ret, results, cf, ck, tk>>

\* switch method { case CmpPartial: ... case CmpSize: ... case CmpFull: ...
\* default: log.Fatal("Invalid compare method") }
PF_Switch ==
    /\ Running /\ pf.pc = "switch"
    /\ IF pf.method = CmpPartial
       THEN /\ ck' = [ckIdle EXCEPT !.pc = "stat", !.fn = "GetPartialChecksum",
                                     !.filename = pf.filename]
            /\ pf' = [pf EXCEPT !.pc = "waitSum"]
            /\ UNCHANGED <<status, ret, results>>
       ELSE IF pf.method = CmpSize
       THEN /\ pf' = [pf EXCEPT !.pc = "return", !.fileinfo = DecString(pf.size)]
            /\ ck' = ck
            /\ UNCHANGED <<status, ret, results>>
       ELSE IF pf.method = CmpFull
       THEN /\ ck' = [ckIdle EXCEPT !.pc = "open", !.fn = "GetChecksum",
                                     !.filename = pf.filename]
            /\ pf' = [pf EXCEPT !.pc = "waitSum"]
            /\ UNCHANGED <<status, ret, results>>
       ELSE /\ pf' = [pf EXCEPT !.pc = "fatal", !.err = "Invalid compare method"]
            /\ ck' = ck
            /\ Fatal
    /\ UNCHANGED <<files, fsMode, tmp, touched, last, call, cf, tk>>

\* Variant: os.Chtimes(filename, mtime, atime), the two times swapped.
DeferredChtimes_swapped(frame, mode, f) ==
    IF frame.deferChtimes THEN Chtimes(mode, f, frame.mtime, frame.atime) ELSE f

\* The deferred os.Chtimes(filename, atime, mtime), run when processFile
\* returns: the file afterwards.  Its error is dropped.
DeferredChtimes(frame, mode, f) ==
    IF frame.deferChtimes THEN Chtimes(mode, f, frame.atime, frame.mtime) ELSE f

\* processFile returns: its deferred call runs, the caller gets (fileinfo, err).
PF_Return ==
    /\ Running /\ pf.pc = "return"
    /\ files' = [files EXCEPT ![pf.filename] = DeferredChtimes(pf, fsMode, @)]
    /\ IF pf.deferChtimes THEN Sys("Chtimes", pf.filename) ELSE UNCHANGED <<touched, last>>
    /\ pf' = [pf EXCEPT !.pc = "inactive"]
    /\ IF call.op = "CompareFiles"
       THEN /\ cf' = [cf EXCEPT !.pc = "afterProcess", !.fi = pf.fileinfo, !.err = pf.err]
            /\ UNCHANGED <<status, ret, results>>
       ELSE /\ TopReturn([NoRet EXCEPT !.fp = pf.fileinfo, !.err = pf.err])
            /\ cf' = cf
    /\ UNCHANGED <<fsMode, tmp, call, ck, tk>>

\* ------------------------------------------- GetChecksum, GetPartialChecksum
\* A fingerprint function may be called once more after another one returned.
MayCall(op, fn) ==
    \/ status = "idle"
    \/ /\ status = "returned"
       /\ call.op \in {"GetChecksum", "GetPartialChecksum"}
       /\ ret.err = NoErr
       /\ <<op, fn>> \notin DOMAIN results

\* The top-level call GetChecksum(filename).
CallGetChecksum(fn) ==
    /\ MayCall("GetChecksum", fn)
    /\ status' = "running"
    /\ call' = [NoCall EXCEPT !.op = "GetChecksum", !.fns = <<fn>>]
    /\ ck' = [ckIdle EXCEPT !.pc = "open", !.fn = "GetChecksum", !.filename = fn]
    /\ ret' = NoRet
    /\ UNCHANGED <<files, fsMode, tmp, touched, last, results, cf, pf, tk>>

\* The top-level call GetPartialChecksum(filename).
CallGetPartialChecksum(fn) ==
    /\ MayCall("GetPartialChecksum", fn)
    /\ status' = "running"
    /\ call' = [NoCall EXCEPT !.op = "GetPartialChecksum", !.fns = <<fn>>]
    /\ ck' = [ckIdle EXCEPT !.pc = "stat", !.fn = "GetPartialChecksum", !.filename = fn]
    /\ ret' = NoRet
    /\ UNCHANGED <<files, fsMode, tmp, touched, last, results, cf, pf, tk>>

\* fi, err := os.Stat(filename); if err != nil { return "", false, err }
GPC_Stat ==
    /\ Running /\ ck.pc = "stat"
    /\ Sys("Stat", ck.filename)
    /\ \E e \in StatErrs(files[ck.filename]) :
         ck' = IF e # NoErr
               THEN [ck EXCEPT !.pc = "return", !.err = e]
               ELSE [ck EXCEPT !.pc = "open", !.filesize = files[ck.filename].size]
    /\ UNCHANGED <<files, fsMode, tmp, call, status, ret, results, cf, pf, tk>>

\* f, err := os.Open(filename); if err != nil { log.Fatal(err) }; defer f.Close()
\* h := sha256.New()       (the same statements in both functions)
CK_Open ==
    /\ Running /\ ck.pc = "open"
    /\ Sys("Open", ck.filename)
    /\ \E e \in OpenErrs(files[ck.filename]) :
         IF e # NoErr
         THEN /\ ck' = [ck EXCEPT !.pc = "fatal", !.err = e]
              /\ Fatal
         ELSE /\ ck' = [ck EXCEPT !.pc = IF ck.fn = "GetChecksum" THEN "copy" ELSE "branch",
                                   !.open = TRUE, !.h = NewHash, !.pos = 0]
              /\ UNCHANGED <<status, ret, results>>
    /\ UNCHANGED <<files, fsMode, tmp, call, cf, pf, tk>>

\* A read that fails may or may not have read (and stamped) the file before.
FailedRead(fn) == \E partial \in BOOLEAN :
    files' = IF partial THEN [files EXCEPT ![fn] = Touch(@)] ELSE files

\* io.Copy(h, f): everything from the file position to the end of the file.
CopyAll(frame, f) ==
    [frame EXCEPT !.h = HashWrite(frame.h, f, frame.pos, f.size - frame.pos),
                  !.windows = Append(frame.windows, <<frame.pos, f.size - frame.pos>>),
                  !.pos = f.size]

\* Variant: io.Copy in place of io.CopyN, reading to the end of the file.
CopyN_toEOF(frame, f, n) == CopyAll(frame, f)

\* io.CopyN(h, f, n): n bytes from the file position.
CopyN(frame, f, n) ==
    [frame EXCEPT !.h = HashWrite(frame.h, f, frame.pos, n),
                  !.windows = Append(frame.windows, <<frame.pos, n>>),
                  !.pos = frame.pos + n]
\* io.CopyN returns io.EOF when fewer than n bytes are left.
CopyNErrs(frame, f, n) == IF frame.pos + n > f.size THEN {"EOF"} ELSE IOErrs

\* if _, err := io.Copy(h, f); err != nil { return "", err }
\* return hex.EncodeToString(h.Sum(nil)), nil
GC_Copy ==
    /\ Running /\ ck.pc = "copy"
    /\ Sys("Read", ck.filename)
    /\ \E e \in IOErrs :
         IF e # NoErr
         THEN /\ ck' = [ck EXCEPT !.pc = "return", !.err = e]
              /\ FailedRead(ck.filename)
         ELSE /\ ck' = [CopyAll(ck, files[ck.filename]) EXCEPT
                          !.pc = "return",
                          !.sum = HexDigest(CopyAll(ck, files[ck.filename]).h)]
              /\ files' = [files EXCEPT ![ck.filename] = Touch(@)]
    /\ UNCHANGED <<fsMode, tmp, call, status, ret, results, cf, pf, tk>>

\* Variant: the threshold itself is excluded.
UseWholeFile_strict(filesize) == filesize < minPartialChecksumSize

\* if filesize <= minPartialChecksumSize
UseWholeFile(filesize) == filesize <= minPartialChecksumSize

\* { if _, err := io.Copy(h, f); err != nil { return "", false, err }; isFull = true }
GPC_Whole ==
    /\ Running /\ ck.pc = "branch" /\ UseWholeFile(ck.filesize)
    /\ Sys("Read", ck.filename)
    /\ \E e \in IOErrs :
         IF e # NoErr
         THEN /\ ck' = [ck EXCEPT !.pc = "return", !.err = e]
              /\ FailedRead(ck.filename)
         ELSE /\ ck' = [CopyAll(ck, files[ck.filename]) EXCEPT
                          !.pc = "return", !.isFull = TRUE,
                          !.sum = HexDigest(CopyAll(ck, files[ck.filename]).h)]
              /\ files' = [files EXCEPT ![ck.filename] = Touch(@)]
    /\ UNCHANGED <<fsMode, tmp, call, status, ret, results, cf, pf, tk>>

\* else { if _, err := io.CopyN(h, f, 1024*1024); err != nil { return "", false, err }
GPC_Head ==
    /\ Running /\ ck.pc = "branch" /\ ~UseWholeFile(ck.filesize)
    /\ Sys("Read", ck.filename)
    /\ \E e \in CopyNErrs(ck, files[ck.filename], MiB) :
         IF e # NoErr
         THEN /\ ck' = [ck EXCEPT !.pc = "return", !.err = e]
              /\ FailedRead(ck.filename)
         ELSE /\ ck' = [CopyN(ck, files[ck.filename], MiB) EXCEPT !.pc = "seekMid"]
              /\ files' = [files EXCEPT ![ck.filename] = Touch(@)]
    /\ UNCHANGED <<fsMode, tmp, call, status, ret, results, cf, pf, tk>>

\* filemid := filesize / 2; filemid = filemid - (filemid % (1024 * 1024))
\* if _, err := f.Seek(filemid, io.SeekStart); err != nil { return "", false, err }
GPC_SeekMid ==
    /\ Running /\ ck.pc = "seekMid"
    /\ Sys("Seek", ck.filename)
    /\ \E e \in IOErrs :
         ck' = IF e # NoErr
               THEN [ck EXCEPT !.pc = "return", !.err = e]
               ELSE [ck EXCEPT !.pc = "mid", !.pos = FileMid(ck.filesize)]
    /\ UNCHANGED <<files, fsMode, tmp, call, status, ret, results, cf, pf, tk>>

\* if _, err := io.CopyN(h, f, 1024*1024); err != nil { return "", false, err }
GPC_Mid ==
    /\ Running /\ ck.pc = "mid"
    /\ Sys("Read", ck.filename)
    /\ \E e \in CopyNErrs(ck, files[ck.filename], MiB) :
         IF e # NoErr
         THEN /\ ck' = [ck EXCEPT !.pc = "return", !.err = e]
              /\ FailedRead(ck.filename)
         ELSE /\ ck' = [CopyN(ck, files[ck.filename], MiB) EXCEPT !.pc = "seekEnd"]
              /\ files' = [files EXCEPT ![ck.filename] = Touch(@)]
    /\ UNCHANGED <<fsMode, tmp, call, status, ret, results, cf, pf, tk>>

\* f.Seek(-1024*1024, io.SeekEnd): the position it sets.
SeekEnd(f) == f.size - MiB

\* if _, err := f.Seek(-1024*1024, io.SeekEnd); err != nil { return "", false, err }
GPC_SeekEnd ==
    /\ Running /\ ck.pc = "seekEnd"
    /\ Sys("Seek", ck.filename)
    /\ \E e \in IOErrs :
         ck' = IF e # NoErr
               THEN [ck EXCEPT !.pc = "return", !.err = e]
               ELSE [ck EXCEPT !.pc = "tail", !.pos = SeekEnd(files[ck.filename])]
    /\ UNCHANGED <<files, fsMode, tmp, call, status, ret, results, cf, pf, tk>>

\* if _, err := io.Copy(h, f); err != nil { return "", false, err } }
\* return hex.EncodeToString(h.Sum(nil)), isFull, nil
GPC_Tail ==
    /\ Running /\ ck.pc = "tail"
    /\ Sys("Read", ck.filename)
    /\ \E e \in IOErrs :
         IF e # NoErr
         THEN /\ ck' = [ck EXCEPT !.pc = "return", !.err = e]
              /\ FailedRead(ck.filename)
         ELSE /\ ck' = [CopyAll(ck, files[ck.filename]) EXCEPT
                          !.pc = "return",
                          !.sum = HexDigest(CopyAll(ck, files[ck.filename]).h)]
              /\ files' = [files EXCEPT ![ck.filename] = Touch(@)]
    /\ UNCHANGED <<fsMode, tmp, call, status, ret, results, cf, pf, tk>>

\* GetChecksum / GetPartialChecksum returns: the deferred f.Close() runs, the
\* caller gets (sum, isFull, err).
CK_Return ==
    /\ Running /\ ck.pc = "return"
    /\ IF ck.open THEN Sys("Close", ck.filename) ELSE UNCHANGED <<touched, last>>
    /\ ck' = [ck EXCEPT !.pc = "inactive", !.open = FALSE]
    /\ IF call.op \in {"GetChecksum", "GetPartialChecksum"}
       THEN /\ TopReturn([NoRet EXCEPT !.fp = ck.sum, !.isFull = ck.isFull, !.err = ck.err])
            /\ pf' = pf
       ELSE /\ pf' = [pf EXCEPT !.pc = "return", !.fileinfo = ck.sum, !.err = ck.err]
            /\ UNCHANGED <<status, ret, results>>
    /\ UNCHANGED <<files, fsMode, tmp, call, cf, tk>>

\* ------------------------------------------------------- specifications
\* The fingerprint functions alone, called one after another.
NextSum ==
    \/ \E fn \in Paths : CallGetChecksum(fn)
    \/ \E fn \in Paths : CallGetPartialChecksum(fn)
    \/ GPC_Stat
    \/ CK_Open
    \/ GC_Copy
    \/ GPC_Whole
    \/ GPC_Head
    \/ GPC_SeekMid
    \/ GPC_Mid
    \/ GPC_SeekEnd
    \/ GPC_Tail
    \/ CK_Return

Next ==
    \/ \E fn \in Paths : CallTestKeepAtime(fn)
    \/ \E fns \in FnsLists, m \in Methods, k \in BOOLEAN, c \in BOOLEAN :
         CallCompareFiles(fns, m, k, c)
    \/ \E fn \in Paths, m \in Methods, k \in BOOLEAN : CallProcessFile(fn, m, k)
    \/ TK_CreateTemp
    \/ TK_Chtimes
    \/ TK_Stat
    \/ TK_Return
    \/ CF_Check
    \/ CF_AfterProbe
    \/ CF_Loop
    \/ CF_AfterProcess
    \/ CF_Range
    \/ PF_AtimeStat
    \/ PF_Stat
    \/ PF_Switch
    \/ PF_Return
    \/ NextSum

Spec == Init /\ [][Next]_vars

SpecSum == InitSum /\ [][NextSum]_vars


\* ------------------------------------------------------------ properties
GPC == "GetPartialChecksum"
GC == "GetChecksum"
Threshold16MiB == 16 * 1024 * 1024

SameGroup(groups, i, j) ==
    \E g \in 1..Len(groups) :
      /\ \E x \in 1..Len(groups[g]) : groups[g][x] = i
      /\ \E y \in 1..Len(groups[g]) : groups[g][y] = j

\* The number of places at which index i occurs in the returned grouping.
Occurrences(groups, i) ==
    Cardinality(UNION {{<<g, x>> : x \in {y \in 1..Len(groups[g]) : groups[g][y] = i}} :
                         g \in 1..Len(groups)})

CompareFilesReturnedOk ==
    status = "returned" /\ call.op = "CompareFiles" /\ ret.err = NoErr

\* C2: when CompareFiles returns without error for n paths, the groups partition
\* 0..n-1: every index is in exactly one group, and two indices are in one group
\* exactly when processFile returned the same fingerprint for them.
C2_GroupsPartitionByFingerprint ==
    CompareFilesReturnedOk =>
      LET n == Len(call.fns) IN
        /\ Len(cf.fps) = n
        /\ \A g \in 1..Len(ret.groups) :
             Len(ret.groups[g]) > 0 /\ \A x \in 1..Len(ret.groups[g]) : ret.groups[g][x] \in 0..(n - 1)
        /\ \A i \in 0..(n - 1) : Occurrences(ret.groups, i) = 1
        /\ \A i, j \in 0..(n - 1) :
             SameGroup(ret.groups, i, j) <=> (cf.fps[i + 1] = cf.fps[j + 1])

\* Three paths were grouped into two groups, under a content fingerprint.
C2_Witness ==
    /\ CompareFilesReturnedOk
    /\ Len(call.fns) = 3
    /\ Len(ret.groups) = 2
    /\ call.method = CmpFull
    /\ SameGroup(ret.groups, 0, 2)
    /\ ~SameGroup(ret.groups, 0, 1)

\* C3 (as claimed): with keepATime, on every exit of processFile taken after the
\* times were captured, also when the fingerprint computation fails (open, read,
\* seek, unknown method), the last thing done is the reset of the file's times.
C3_RestoreOnEveryExit ==
    (pf.deferChtimes /\ (pf.pc = "inactive" \/ status = "exited"))
      => last = <<"Chtimes", pf.filename>>

\* C4: with preservation on and a mount that honours os.Chtimes, after a
\* successful processFile the access time (in whole seconds) and the
\* modification time of the file are the ones it had before the call.
C4_TimesPreserved ==
    (fsMode = "honour" /\ pf.keepATime /\ pf.pc = "inactive" /\ pf.err = NoErr
       /\ pf.fileinfo # EmptyString)
      => /\ Unix(files[pf.filename].atime) = Unix(InitATime(pf.filename))
         /\ files[pf.filename].mtime = InitMTime(pf.filename)

\* processFile returned a partial checksum of a file above the threshold, which
\* it read in three places, with preservation on.
C4_Witness ==
    /\ fsMode = "honour" /\ pf.keepATime /\ pf.pc = "inactive" /\ pf.err = NoErr
    /\ pf.method = CmpPartial
    /\ pf.fileinfo.kind = "hex"
    /\ Len(ck.windows) = 3
    /\ last = <<"Chtimes", pf.filename>>

\* C5: whenever TestKeepAtime is not running (before it, and after any of its
\* returns) no temporary file of the probe exists.
C5_NoLeftoverTempFile ==
    tk.pc = "inactive" => ~tmp.exists

\* TestKeepAtime returned an error after it had created its temporary file.
C5_Witness ==
    /\ status = "returned" /\ call.op = "TestKeepAtime"
    /\ ret.err # NoErr
    /\ last = <<"Remove", "tmp">>
    /\ ~tmp.exists

\* C6 (as claimed): a failing stat, open, read or seek ends in a returned error;
\* the process is terminated for an unknown method only.
C6_FailuresAreReturned ==
    status = "exited" => pf.err = "Invalid compare method"

\* CompareFiles has returned because processFile returned an error.
CompareFilesAborted ==
    status = "returned" /\ call.op = "CompareFiles" /\ pf.pc = "inactive" /\ pf.err # NoErr

\* C7: when processFile fails for index k, CompareFiles returns that error at
\* once, with no groups, and no system call was made on a path that occurs only
\* after index k.
C7_FirstErrorAborts ==
    /\ (call.op = "CompareFiles" /\ pf.pc = "inactive" /\ pf.err # NoErr)
         => (status = "returned" \/ (status = "running" /\ cf.pc = "afterProcess"))
    /\ CompareFilesAborted =>
         /\ ret.err = pf.err
         /\ ret.groups = <<>>
         /\ pf.filename = call.fns[cf.i + 1]
         /\ last[2] = pf.filename
         /\ (touched \cap Paths) \subseteq {call.fns[j] : j \in 1..(cf.i + 1)}

\* The second of three paths failed; the third path is another file.
C7_Witness ==
    /\ CompareFilesAborted
    /\ cf.i = 1
    /\ Len(call.fns) = 3
    /\ call.fns[3] \notin {call.fns[1], call.fns[2]}
    /\ call.method = CmpPartial

\* C8: with checkKeepAtime and keepATime, no input file is touched unless the
\* probe has reported capable; when the probe reports not capable or fails,
\* CompareFiles returns an error, no groups, and the input files are untouched
\* with their times as before.  Without checkKeepAtime no probe is run and no
\* temporary file is created.
C8_ProbeGuardsTheRun ==
    call.op = "CompareFiles" =>
      /\ (call.checkKeepAtime /\ call.keepATime) =>
           /\ (touched \cap Paths # {}) => ("tmp" \in touched /\ cf.canKeep)
           /\ (status = "returned" /\ ~cf.canKeep) =>
                /\ ret.err # NoErr
                /\ ret.groups = <<>>
                /\ touched \cap Paths = {}
                /\ \A p \in Paths : files[p].atime = InitATime(p) /\ files[p].mtime = InitMTime(p)
      /\ ~call.checkKeepAtime => ("tmp" \notin touched /\ ~tmp.exists)

\* The probe found the mount not capable and CompareFiles gave up.
C8_Witness ==
    /\ status = "returned" /\ call.op = "CompareFiles"
    /\ call.checkKeepAtime /\ call.keepATime
    /\ ret.err = "can't keep atime"
    /\ "tmp" \in touched

\* Windows <<from, n>> and <<from2, n2>> have no byte in common.
Disjoint(w, v) == w[1] + w[2] <= v[1] \/ v[1] + v[2] <= w[1]

\* C9: for a size above 16 MiB the hash is fed exactly three windows in the
\* order head [0, 1 MiB), middle [mid, mid + 1 MiB) with mid the largest
\* multiple of 1 MiB not above size/2, tail [size - 1 MiB, size); each is
\* 1 MiB long and inside the file, and no two overlap.
C9_ThreeWindows ==
    (ck.fn = GPC /\ ck.pc = "return" /\ ck.err = NoErr /\ ck.filesize > Threshold16MiB)
      => LET size == files[ck.filename].size
             w == ck.windows
         IN /\ Len(w) = 3
            /\ w[1] = <<0, 1024 * 1024>>
            /\ w[2][2] = 1024 * 1024
            /\ w[2][1] % (1024 * 1024) = 0
            /\ w[2][1] <= size \div 2 /\ size \div 2 < w[2][1] + 1024 * 1024
            /\ w[3] = <<size - 1024 * 1024, 1024 * 1024>>
            /\ \A x \in 1..3 : 0 <= w[x][1] /\ w[x][1] + w[x][2] <= size
            /\ Disjoint(w[1], w[2]) /\ Disjoint(w[2], w[3]) /\ Disjoint(w[1], w[3])
            /\ ck.h.len = 3 * 1024 * 1024

\* A partial checksum of a file whose half size is no multiple of 1 MiB is done.
C9_Witness ==
    /\ ck.fn = GPC /\ ck.pc = "return" /\ ck.err = NoErr
    /\ ck.filesize > Threshold16MiB
    /\ (ck.filesize \div 2) % (1024 * 1024) # 0
    /\ Len(ck.windows) = 3

\* The bytes of f and g in [from, from + n) are the same.
AgreeOn(f, g, from, n) ==
    {o \in f.ones : from <= o /\ o < from + n} = {o \in g.ones : from <= o /\ o < from + n}

\* Files f and g of one size agree on the head, middle and tail windows.
AgreeOnWindows(f, g) ==
    LET half == f.size \div 2
        mid == half - (half % (1024 * 1024))
    IN /\ AgreeOn(f, g, 0, 1024 * 1024)
       /\ AgreeOn(f, g, mid, 1024 * 1024)
       /\ AgreeOn(f, g, f.size - 1024 * 1024, 1024 * 1024)

\* The index (from 0) of some occurrence of path p in the list.
IndexOf(fns, p) == (CHOOSE x \in 1..Len(fns) : fns[x] = p) - 1

\* C10: two files of one size above 16 MiB which agree on the three windows
\* have equal partial fingerprints, so CompareFiles under CmpPartial puts them
\* in one group; if their contents differ their full fingerprints differ, and
\* CompareFiles under CmpFull puts them in different groups.
C10_PartialBlindOutsideWindows ==
    \A p, q \in Paths :
      LET f == files[p]
          g == files[q]
      IN (f.state = "ok" /\ g.state = "ok" /\ f.size = g.size /\ f.size > Threshold16MiB
            /\ AgreeOnWindows(f, g))
         => /\ (<<GPC, p>> \in DOMAIN results /\ <<GPC, q>> \in DOMAIN results)
                 => results[<<GPC, p>>].fp = results[<<GPC, q>>].fp
            /\ (f.ones # g.ones /\ <<GC, p>> \in DOMAIN results /\ <<GC, q>> \in DOMAIN results)
                 => results[<<GC, p>>].fp # results[<<GC, q>>].fp
            /\ (CompareFilesReturnedOk /\ p \in {call.fns[x] : x \in 1..Len(call.fns)}
                  /\ q \in {call.fns[x] : x \in 1..Len(call.fns)})
                 => /\ call.method = CmpPartial
                         => SameGroup(ret.groups, IndexOf(call.fns, p), IndexOf(call.fns, q))
                    /\ (call.method = CmpFull /\ f.ones # g.ones)
                         => ~SameGroup(ret.groups, IndexOf(call.fns, p), IndexOf(call.fns, q))

\* Two 17 MiB files that differ in the third MiB only were put in one group
\* under CmpPartial.
C10_Witness ==
    /\ CompareFilesReturnedOk
    /\ call.method = CmpPartial
    /\ call.fns = <<"a", "b">>
    /\ files["a"].size = 17 * 1024 * 1024 /\ files["b"].size = 17 * 1024 * 1024
    /\ files["a"].ones = {} /\ files["b"].ones = {2 * 1024 * 1024 + 5}
    /\ ret.groups = << <<0, 1>> >>

====
